---- MODULE Spec2Model ----
(***************************************************************************)
(* Model of src/app.py: a Streamlit script that is re-executed top to      *)
(* bottom on every browser interaction.  Each browser session owns the     *)
(* values of its widgets and one st.session_state dictionary; everything   *)
(* else is recomputed by each script run.                                  *)
(*                                                                         *)
(* Real-valued quantities (molecular weight, LogP, TPSA) are fixed-point   *)
(* integers in hundredths: 500 Da is Fx(500), 131.6 is 13160, 5.88 is 588. *)
(* Probabilities are percentages.  The estimated LD50 is kept in units of  *)
(* 1/200 mg/kg so that mw * 0.5 stays integral.                            *)
(***************************************************************************)
EXTENDS Integers, FiniteSets, Sequences, TLC

VARIABLES
    PYBEL_AVAILABLE,   \* app.py:8-13, result of "import pybel" in this installation
    ob_failure,        \* where the toolkit raises inside calculate_molecular_properties
    text_input,        \* per session: value of the sidebar text box (app.py:526)
    detailed_admet,    \* per session: value of the "Detailed ADMET" checkbox (app.py:559)
    session_state,     \* per session: st.session_state, a dictionary
    view,              \* per session: what the most recent script run rendered
    hist,              \* history of clicks (last Load, Analyze clicks since) of the
                       \* sessions it is kept for
    lip_arg,           \* argument handed to check_lipinski_rule (function-level runs)
    lip_ret            \* what check_lipinski_rule returned for lip_arg

vars == << PYBEL_AVAILABLE, ob_failure, text_input, detailed_admet,
           session_state, view, hist, lip_arg, lip_ret >>

sessionVars == << PYBEL_AVAILABLE, ob_failure, text_input, detailed_admet,
                  session_state, view, hist >>

---------------------------------------------------------------------------
(* Bounds of the model *)

MaxHBD == 6
MaxHBA == 11
MaxAnalyzeCount == 2

---------------------------------------------------------------------------
(* Python dictionaries *)

Fx(n) == n * 100

EmptyDict == [k \in {} |-> 0]

Has(d, k) == k \in DOMAIN d

Get(d, k, default) == IF k \in DOMAIN d THEN d[k] ELSE default

DictSet(d, k, v) == [x \in (DOMAIN d) \cup {k} |-> IF x = k THEN v ELSE d[x]]

DictDel(d, k) == [x \in (DOMAIN d) \ {k} |-> d[x]]

Max(a, b) == IF a >= b THEN a ELSE b

Abs(a) == IF a < 0 THEN 0 - a ELSE a

B2N(b) == IF b THEN 1 ELSE 0

---------------------------------------------------------------------------
(* check_lipinski_rule, app.py:225-277 *)

LipinskiRules(mw, logp, hbd, hba) ==
    [k \in {"MW < 500 Da", "LogP < 5", "HBD <= 5", "HBA <= 10"} |->
        CASE k = "MW < 500 Da" -> [value |-> mw,   pass |-> mw < Fx(500),   limit |-> "< 500"]
          [] k = "LogP < 5"    -> [value |-> logp, pass |-> logp < Fx(5),   limit |-> "< 5"]
          [] k = "HBD <= 5"    -> [value |-> hbd,  pass |-> hbd <= 5,       limit |-> "<= 5"]
          [] k = "HBA <= 10"   -> [value |-> hba,  pass |-> hba <= 10,      limit |-> "<= 10"]]

LipinskiViolations_reversed(mw, logp, hbd, hba) ==
    B2N(mw <= Fx(500)) + B2N(logp >= Fx(5)) + B2N(hbd > 5) + B2N(hba > 10)

LipinskiViolations_boundary(mw, logp, hbd, hba) ==
    B2N(mw > Fx(500)) + B2N(logp >= Fx(5)) + B2N(hbd > 5) + B2N(hba > 10)

LipinskiViolations(mw, logp, hbd, hba) ==
    B2N(mw >= Fx(500)) + B2N(logp >= Fx(5)) + B2N(hbd > 5) + B2N(hba > 10)

check_lipinski_rule(properties) ==
    LET mw   == Get(properties, "molecular_weight", 0)
        logp == Get(properties, "logp", 0)
        hbd  == Get(properties, "hbd", 0)
        hba  == Get(properties, "hba", 0)
        violations == LipinskiViolations(mw, logp, hbd, hba)
    IN  [rules      |-> LipinskiRules(mw, logp, hbd, hba),
         violations |-> violations,
         passes     |-> violations <= 1]

NoLipinski == [rules |-> EmptyDict, violations |-> -1, passes |-> FALSE]

---------------------------------------------------------------------------
(* check_additional_drug_rules, app.py:279-322 *)

check_additional_drug_rules(properties) ==
    LET tpsa == Get(properties, "TPSA", 0)
        rotb == Get(properties, "nrotb", 0)
        logp == Get(properties, "logp", 0)
        veber_violations == B2N(tpsa > Fx(140)) + B2N(rotb > 10)
        egan_violations  == B2N(tpsa > 13160) + B2N(logp > 588)
    IN  [veber |-> [name       |-> "Veber Rules",
                    tpsa_pass  |-> tpsa <= Fx(140),
                    rotb_pass  |-> rotb <= 10,
                    violations |-> veber_violations,
                    passes     |-> veber_violations = 0],
         egan  |-> [name       |-> "Egan Rules",
                    tpsa_pass  |-> tpsa <= 13160,
                    logp_pass  |-> logp <= 588,
                    violations |-> egan_violations,
                    passes     |-> egan_violations = 0]]

NoAdditional ==
    [veber |-> [name |-> "", tpsa_pass |-> FALSE, rotb_pass |-> FALSE,
                violations |-> -1, passes |-> FALSE],
     egan  |-> [name |-> "", tpsa_pass |-> FALSE, logp_pass |-> FALSE,
                violations |-> -1, passes |-> FALSE]]

---------------------------------------------------------------------------
(* predict_admet_properties, app.py:121-223 *)

predict_admet_properties(properties) ==
    LET mw    == Get(properties, "molecular_weight", 0)
        logp  == Get(properties, "logp", 0)
        tpsa  == Get(properties, "TPSA", 0)
        hbd   == Get(properties, "hbd", 0)
        rotb  == Get(properties, "nrotb", 0)
        heavy_atoms    == Get(properties, "heavy_atoms", 0)
        aromatic_rings == Get(properties, "naromrings", 0)
        hia == IF tpsa <= Fx(140) /\ mw <= Fx(500) /\ rotb <= 10 THEN <<"High", 85>>
               ELSE IF tpsa <= Fx(200) /\ mw <= Fx(700) THEN <<"Medium", 65>>
               ELSE <<"Low", 25>>
        bbb == IF tpsa <= Fx(90) /\ mw <= Fx(450) /\ logp <= Fx(5) /\ hbd <= 3
                    THEN <<"High", 80>>
               ELSE IF tpsa <= Fx(120) /\ mw <= Fx(500) THEN <<"Medium", 50>>
               ELSE <<"Low", 20>>
        herg_risk_score == B2N(logp > Fx(3)) + B2N(mw > Fx(300))
                           + B2N(aromatic_rings >= 2) + B2N(tpsa < Fx(75))
        herg == IF herg_risk_score >= 3 THEN <<"High Risk", 75>>
                ELSE IF herg_risk_score = 2 THEN <<"Medium Risk", 45>>
                ELSE <<"Low Risk", 15>>
        cyp == IF logp > Fx(3) /\ mw > Fx(300) /\ aromatic_rings >= 1
                    THEN <<"Likely", 70>> ELSE <<"Unlikely", 30>>
        hepatotox_score == 2 * B2N(logp > Fx(5)) + B2N(mw > Fx(500))
                           + B2N(aromatic_rings >= 3)
        hepatotoxicity == IF hepatotox_score >= 3 THEN "High Risk"
                          ELSE IF hepatotox_score >= 2 THEN "Medium Risk"
                          ELSE "Low Risk"
        mut == IF aromatic_rings >= 3 /\ heavy_atoms > 20
                    THEN <<"Positive", 60>> ELSE <<"Negative", 20>>
        \* mg/kg * 200; logp and mw are in hundredths
        estimated_ld50 ==
            IF logp < 0 THEN 400000 + Abs(logp) * 1000
            ELSE IF logp > Fx(4) THEN Max(10000, 200000 - (logp - Fx(4)) * 400)
            ELSE 300000 - mw + logp * 200
    IN  [hia |-> hia[1], hia_probability |-> hia[2],
         bbb |-> bbb[1], bbb_probability |-> bbb[2],
         herg |-> herg[1], herg_probability |-> herg[2],
         cyp_inhibition |-> cyp[1], cyp_probability |-> cyp[2],
         hepatotoxicity |-> hepatotoxicity,
         mutagenicity |-> mut[1], ames_probability |-> mut[2],
         ld50_estimated |-> Max(10000, estimated_ld50)]

NoAdmet ==
    [hia |-> "", hia_probability |-> 0, bbb |-> "", bbb_probability |-> 0,
     herg |-> "", herg_probability |-> 0, cyp_inhibition |-> "",
     cyp_probability |-> 0, hepatotoxicity |-> "", mutagenicity |-> "",
     ames_probability |-> 0, ld50_estimated |-> 0]

---------------------------------------------------------------------------
(* The examples table, app.py:534-542 *)

examples ==
    [n \in {"Aspirin", "Caffeine", "Ibuprofen", "Paracetamol", "Warfarin",
            "Atorvastatin", "Morphine"} |->
        CASE n = "Aspirin"      -> "CC(=O)Oc1ccccc1C(=O)O"
          [] n = "Caffeine"     -> "CN1C=NC2=C1C(=O)N(C(=O)N2C)C"
          [] n = "Ibuprofen"    -> "CC(C)Cc1ccc(C(C)C(=O)O)cc1"
          [] n = "Paracetamol"  -> "CC(=O)Nc1ccc(O)cc1"
          [] n = "Warfarin"     -> "CC(=O)CC(c1ccccc1)c1c(O)c2ccccc2oc1=O"
          [] n = "Atorvastatin" -> "CC(C)c1c(C(=O)Nc2ccccc2F)c(-c2ccccc2)c(-c2ccc(F)cc2)n1CCC(O)CC(O)CC(=O)O"
          [] n = "Morphine"     -> "CN1CC[C@]23c4c5ccc(O)c4O[C@H]2[C@@H](O)C=C[C@H]3[C@H]1C5"]

ExampleNames == DOMAIN examples

\* What a user types into the text box: nothing, a valid SMILES that is not
\* an example (ethanol), a string the toolkit rejects (unclosed ring), or
\* the SMILES of an example typed by hand.
Texts == {"", "CCO", "C1CC", examples["Aspirin"]}

---------------------------------------------------------------------------
(* The toolkit (Open Babel through pybel).  It is outside the repository;  *)
(* the script only assumes it is a function of the SMILES string.  The     *)
(* table gives its answer for the strings of the model: <<molwt, exactmass,*)
(* logP, HBD, HBA1, TPSA, nrotb, naromrings, heavy atoms, charge>>.        *)

OBParses(smiles) == smiles \notin {"", "C1CC"}

OBTable(smiles) ==
    CASE smiles = examples["Aspirin"]      -> <<18016, 18004, 119, 1, 4, 6360, 3, 1, 13, 0>>
      [] smiles = examples["Caffeine"]     -> <<19419, 19408, -104, 0, 6, 6182, 0, 2, 14, 0>>
      [] smiles = examples["Ibuprofen"]    -> <<20628, 20613, 307, 1, 2, 3730, 4, 1, 15, 0>>
      [] smiles = examples["Paracetamol"]  -> <<15116, 15106, 135, 2, 3, 4933, 1, 1, 11, 0>>
      [] smiles = examples["Warfarin"]     -> <<30833, 30810, 361, 1, 4, 6751, 4, 3, 23, 0>>
      [] smiles = examples["Atorvastatin"] -> <<55864, 55826, 631, 4, 7, 11179, 12, 4, 41, 0>>
      [] smiles = examples["Morphine"]     -> <<28534, 28514, 119, 2, 4, 5293, 0, 1, 21, 0>>
      [] OTHER                             -> <<4607, 4604, -14, 1, 1, 2023, 0, 0, 3, 0>>

\* create_molecule_from_smiles, app.py:324-337.  A molecule object is
\* represented by the SMILES it was read from, None by "None".
create_molecule_from_smiles_silent(smiles) ==
    IF ~PYBEL_AVAILABLE THEN [mol |-> "None", errors |-> {}]
    ELSE IF OBParses(smiles) THEN [mol |-> smiles, errors |-> {}]
    ELSE [mol |-> "None", errors |-> {}]

create_molecule_from_smiles(smiles) ==
    IF ~PYBEL_AVAILABLE THEN [mol |-> "None", errors |-> {}]
    ELSE IF OBParses(smiles) THEN [mol |-> smiles, errors |-> {}]
    ELSE [mol |-> "None", errors |-> {"Error creating molecule from SMILES"}]

\* The except branch of calculate_molecular_properties, app.py:107-117
FallbackProperties(mol) ==
    [k \in {"molecular_weight", "exact_mass", "logp", "hbd", "hba", "TPSA",
            "nrotb", "heavy_atoms", "formal_charge"} |->
        CASE k = "molecular_weight" -> OBTable(mol)[1]
          [] k = "exact_mass"       -> OBTable(mol)[2]
          [] OTHER                  -> 0]

\* The try branch, app.py:78-102 (natomsm, nrings, density and MR are only
\* echoed by st.json and are left out)
ComputedProperties(mol) ==
    [k \in {"molecular_weight", "exact_mass", "logp", "hbd", "hba", "TPSA",
            "nrotb", "naromrings", "heavy_atoms", "formal_charge"} |->
        CASE k = "molecular_weight" -> OBTable(mol)[1]
          [] k = "exact_mass"       -> OBTable(mol)[2]
          [] k = "logp"             -> OBTable(mol)[3]
          [] k = "hbd"              -> OBTable(mol)[4]
          [] k = "hba"              -> OBTable(mol)[5]
          [] k = "TPSA"             -> OBTable(mol)[6]
          [] k = "nrotb"            -> OBTable(mol)[7]
          [] k = "naromrings"       -> OBTable(mol)[8]
          [] k = "heavy_atoms"      -> OBTable(mol)[9]
          [] k = "formal_charge"    -> OBTable(mol)[10]]

\* calculate_molecular_properties, app.py:71-119.  ob_failure says where the
\* toolkit raises: nowhere, in a calcdesc call (after molwt and exactmass
\* were read), or already in mol.molwt, which the except branch reads again.
calculate_molecular_properties(mol) ==
    CASE ob_failure = "none" ->
            [raised |-> FALSE, failed |-> FALSE, errors |-> {},
             properties |-> ComputedProperties(mol)]
      [] ob_failure = "calcdesc" ->
            [raised |-> FALSE, failed |-> TRUE,
             errors |-> {"Error calculating properties"},
             properties |-> FallbackProperties(mol)]
      [] ob_failure = "molwt" ->
            [raised |-> TRUE, failed |-> TRUE,
             errors |-> {"Error calculating properties"},
             properties |-> EmptyDict]

---------------------------------------------------------------------------
(* One run of the script for one session, app.py:496-667 *)

\* app.py:12-14, re-executed at the top of every run
ImportErrors == IF PYBEL_AVAILABLE THEN {} ELSE {"PyBel (Open Babel) is not available"}

NoSummary == [drug_likeness |-> "", admet |-> "", recommendation |-> ""]

BlankView ==
    [clicked |-> "none", smiles |-> "", detailed |-> TRUE, outcome |-> "idle",
     errors |-> ImportErrors, parse_failed |-> FALSE, calc_failed |-> FALSE,
     properties |-> EmptyDict, lipinski_results |-> NoLipinski,
     additional_rules |-> NoAdditional, admet_props |-> NoAdmet,
     summary |-> NoSummary]

\* "Overall Assessment", app.py:608-655.  admet_score is good_admet / 3 * 100,
\* compared here as good_admet * 100 against 3 * 70 and 3 * 50.
OverallAssessment(lipinski_results, detailed, admet_props) ==
    LET good_admet == B2N(admet_props.hia = "High")
                      + B2N(admet_props.herg = "Low Risk")
                      + B2N(admet_props.mutagenicity = "Negative")
        score_ge_70 == good_admet * 100 >= 210
        score_ge_50 == good_admet * 100 >= 150
    IN  [drug_likeness  |-> IF lipinski_results.passes THEN "Good" ELSE "Poor",
         admet          |-> IF ~detailed THEN "Analysis disabled"
                            ELSE IF score_ge_70 THEN "success"
                            ELSE IF score_ge_50 THEN "warning"
                            ELSE "error",
         recommendation |-> IF lipinski_results.passes /\ (~detailed \/ score_ge_50)
                                THEN "Promising"
                            ELSE IF lipinski_results.violations <= 1 THEN "Moderate"
                            ELSE "Poor"]

\* Body of "if analyze_button and smiles_input", app.py:567-664
AnalysisBody(smiles, detailed) ==
    LET base == [BlankView EXCEPT !.smiles = smiles, !.detailed = detailed]
        created == create_molecule_from_smiles(smiles)
        calc == calculate_molecular_properties(created.mol)
        lipinski_results == check_lipinski_rule(calc.properties)
        admet_props == IF detailed THEN predict_admet_properties(calc.properties)
                       ELSE NoAdmet
    IN  IF ~PYBEL_AVAILABLE THEN
            [base EXCEPT !.outcome = "stopped",
                         !.errors = @ \cup {"PyBel is not available. Cannot perform analysis."}]
        ELSE IF created.mol = "None" THEN
            [base EXCEPT !.outcome = "stopped",
                         !.parse_failed = TRUE,
                         !.errors = @ \cup created.errors
                                      \cup {"Invalid SMILES string or error creating molecule."}]
        ELSE IF calc.raised THEN
            [base EXCEPT !.outcome = "exception",
                         !.calc_failed = TRUE,
                         !.errors = @ \cup calc.errors]
        ELSE
            [base EXCEPT !.outcome = "results",
                         !.calc_failed = calc.failed,
                         !.errors = @ \cup calc.errors,
                         !.properties = calc.properties,
                         !.lipinski_results = lipinski_results,
                         !.additional_rules = check_additional_drug_rules(calc.properties),
                         !.admet_props = admet_props,
                         !.summary = OverallAssessment(lipinski_results, detailed, admet_props)]

\* app.py:526 and 549-551
SmilesInput_textfirst(ss, text) ==
    IF text # "" THEN text
    ELSE IF Has(ss, "selected_smiles") THEN ss["selected_smiles"] ELSE text

SmilesInput(ss, text) ==
    IF Has(ss, "selected_smiles") THEN ss["selected_smiles"] ELSE text

\* app.py:563-565
ClearSelection(ss) ==
    IF Has(ss, "selected_smiles") THEN DictDel(ss, "selected_smiles") ELSE ss

\* app.py:546
LoadClick_setdefault(ss, smiles) ==
    IF Has(ss, "selected_smiles") THEN ss ELSE DictSet(ss, "selected_smiles", smiles)

LoadClick(ss, smiles) == DictSet(ss, "selected_smiles", smiles)

\* A run in which no Load button is pressed, app.py:549-667: the new
\* session_state and what is rendered.
ScriptRun_cached(ss, text, detailed, analyze_button) ==
    LET smiles_input == SmilesInput(ss, text)
        fresh == AnalysisBody(smiles_input, detailed)
        shown == IF Has(ss, "cached")
                    THEN [ss["cached"] EXCEPT !.smiles = smiles_input, !.detailed = detailed]
                    ELSE fresh
    IN  IF analyze_button /\ smiles_input # "" THEN
            [state |-> DictSet(ClearSelection(ss), "cached", shown), view |-> shown]
        ELSE IF analyze_button THEN
            [state |-> ss, view |-> [BlankView EXCEPT !.detailed = detailed, !.outcome = "warning"]]
        ELSE
            [state |-> ss, view |-> [BlankView EXCEPT !.detailed = detailed]]

ScriptRun_lateclear(ss, text, detailed, analyze_button) ==
    LET smiles_input == SmilesInput(ss, text)
        shown == AnalysisBody(smiles_input, detailed)
    IN  IF analyze_button /\ smiles_input # "" THEN
            [state |-> IF shown.outcome = "results" THEN ClearSelection(ss) ELSE ss,
             view |-> shown]
        ELSE IF analyze_button THEN
            [state |-> ss, view |-> [BlankView EXCEPT !.detailed = detailed, !.outcome = "warning"]]
        ELSE
            [state |-> ss, view |-> [BlankView EXCEPT !.detailed = detailed]]

ScriptRun(ss, text, detailed, analyze_button) ==
    LET smiles_input == SmilesInput(ss, text)
    IN  IF analyze_button /\ smiles_input # "" THEN
            [state |-> ClearSelection(ss), view |-> AnalysisBody(smiles_input, detailed)]
        ELSE IF analyze_button THEN
            [state |-> ss, view |-> [BlankView EXCEPT !.detailed = detailed, !.outcome = "warning"]]
        ELSE
            [state |-> ss, view |-> [BlankView EXCEPT !.detailed = detailed]]

---------------------------------------------------------------------------
(* Interactions.  Each one triggers a script run in the session it happens *)
(* in.                                                                     *)

Sessions == DOMAIN text_input

Min(a, b) == IF a <= b THEN a ELSE b

\* The user changes the text box; no button is pressed in the run.
EditText(s, t) ==
    /\ t # text_input[s]
    /\ LET run == ScriptRun(session_state[s], t, detailed_admet[s], FALSE)
       IN  /\ text_input' = [text_input EXCEPT ![s] = t]
           /\ session_state' = [session_state EXCEPT ![s] = run.state]
           /\ view' = [view EXCEPT ![s] = [run.view EXCEPT !.clicked = "widget"]]
    /\ UNCHANGED << PYBEL_AVAILABLE, ob_failure, detailed_admet, hist, lip_arg, lip_ret >>

\* The user toggles "Detailed ADMET Analysis".
ToggleDetailed(s) ==
    /\ LET run == ScriptRun(session_state[s], text_input[s], ~detailed_admet[s], FALSE)
       IN  /\ detailed_admet' = [detailed_admet EXCEPT ![s] = ~@]
           /\ session_state' = [session_state EXCEPT ![s] = run.state]
           /\ view' = [view EXCEPT ![s] = [run.view EXCEPT !.clicked = "widget"]]
    /\ UNCHANGED << PYBEL_AVAILABLE, ob_failure, text_input, hist, lip_arg, lip_ret >>

\* "Load <name>", app.py:544-547: the run stores the SMILES and st.rerun()
\* abandons it; the run that follows has no button pressed.
LoadExample(s, name) ==
    /\ LET stored == LoadClick(session_state[s], examples[name])
           run == ScriptRun(stored, text_input[s], detailed_admet[s], FALSE)
       IN  /\ session_state' = [session_state EXCEPT ![s] = run.state]
           /\ view' = [view EXCEPT ![s] = [run.view EXCEPT !.clicked = "load"]]
    /\ hist' = IF s \in DOMAIN hist
                  THEN [hist EXCEPT ![s] = [last_load |-> name, analyzes |-> 0]]
                  ELSE hist
    /\ UNCHANGED << PYBEL_AVAILABLE, ob_failure, text_input, detailed_admet, lip_arg, lip_ret >>

\* "Analyze Molecule", app.py:553-667
Analyze(s) ==
    /\ LET run == ScriptRun(session_state[s], text_input[s], detailed_admet[s], TRUE)
       IN  /\ session_state' = [session_state EXCEPT ![s] = run.state]
           /\ view' = [view EXCEPT ![s] = [run.view EXCEPT !.clicked = "analyze"]]
    /\ hist' = IF s \in DOMAIN hist
                  THEN [hist EXCEPT ![s].analyzes = Min(@ + 1, MaxAnalyzeCount)]
                  ELSE hist
    /\ UNCHANGED << PYBEL_AVAILABLE, ob_failure, text_input, detailed_admet, lip_arg, lip_ret >>

\* check_lipinski_rule called on a property record
CheckRecord ==
    /\ lip_ret = NoLipinski
    /\ lip_ret' = check_lipinski_rule(lip_arg)
    /\ UNCHANGED << sessionVars, lip_arg >>

---------------------------------------------------------------------------
(* Specifications *)

InitSessions(S, H) ==
    /\ PYBEL_AVAILABLE \in BOOLEAN
    /\ ob_failure \in {"none", "calcdesc", "molwt"}
    /\ text_input = [s \in S |-> ""]
    /\ detailed_admet = [s \in S |-> TRUE]
    /\ session_state = [s \in S |-> EmptyDict]
    /\ view = [s \in S |-> BlankView]
    /\ hist = [s \in H |-> [last_load |-> "none", analyzes |-> 0]]

\* Property records: each of the four keys is absent or holds a value
MwValues == {18016, 49999, 50000, 50001}
LogpValues == {-150, 119, 499, 500, 501}
Absent == -999999

PropertyRecords ==
    { [k \in {kk \in {"molecular_weight", "logp", "hbd", "hba"} :
                \/ kk = "molecular_weight" /\ mw # Absent
                \/ kk = "logp" /\ logp # Absent
                \/ kk = "hbd" /\ hbd # Absent
                \/ kk = "hba" /\ hba # Absent} |->
            CASE k = "molecular_weight" -> mw
              [] k = "logp" -> logp
              [] k = "hbd" -> hbd
              [] k = "hba" -> hba] :
        mw \in MwValues \cup {Absent}, logp \in LogpValues \cup {Absent},
        hbd \in (0..MaxHBD) \cup {Absent}, hba \in (0..MaxHBA) \cup {Absent} }

\* One browser session
Init ==
    /\ InitSessions({"A"}, {"A"})
    /\ lip_arg = EmptyDict
    /\ lip_ret = NoLipinski

Next ==
    \/ \E s \in Sessions, t \in Texts : EditText(s, t)
    \/ \E s \in Sessions : ToggleDetailed(s)
    \/ \E s \in Sessions, name \in ExampleNames : LoadExample(s, name)
    \/ \E s \in Sessions : Analyze(s)

Spec == Init /\ [][Next]_vars

\* Two browser sessions of the same server, with independent histories
\* (the click history is not recorded here)
Init2 ==
    /\ InitSessions({"A", "B"}, {})
    /\ lip_arg = EmptyDict
    /\ lip_ret = NoLipinski

Spec2 == Init2 /\ [][Next]_vars

\* check_lipinski_rule applied to a property record
InitLip ==
    /\ InitSessions({"A"}, {"A"})
    /\ PYBEL_AVAILABLE
    /\ ob_failure = "none"
    /\ lip_arg \in PropertyRecords
    /\ lip_ret = NoLipinski

NextLip == CheckRecord

LipSpec == InitLip /\ [][NextLip]_vars

---------------------------------------------------------------------------
(* Properties *)

\* C1: every property record whose molecular weight is below 500, LogP below
\* 5, H-bond donors at most 5 and acceptors at most 10 (aspirin: 180.16,
\* 1.19, 1, 4) gets violations = 0 and passes = TRUE from check_lipinski_rule.
C1_InsideLimitsPasses ==
    ( /\ lip_ret # NoLipinski
      /\ Get(lip_arg, "molecular_weight", 0) < 50000
      /\ Get(lip_arg, "logp", 0) < 500
      /\ Get(lip_arg, "hbd", 0) <= 5
      /\ Get(lip_arg, "hba", 0) <= 10 )
    => (lip_ret.violations = 0 /\ lip_ret.passes)

C1_Witness ==
    /\ lip_ret # NoLipinski
    /\ lip_arg = [molecular_weight |-> 18016, logp |-> 119, hbd |-> 1, hba |-> 4]
    /\ lip_ret.violations = 0

\* C2: check_lipinski_rule returns as violations the number of its four rules
\* whose pass flag is false, MW = 500 and LogP = 5 fail, HBD = 5 and HBA = 10
\* pass, and passes is true exactly when violations <= 1.
C2_ViolationsCountFailedRules ==
    lip_ret # NoLipinski =>
        /\ DOMAIN lip_ret.rules = {"MW < 500 Da", "LogP < 5", "HBD <= 5", "HBA <= 10"}
        /\ lip_ret.violations =
               Cardinality({k \in DOMAIN lip_ret.rules : ~lip_ret.rules[k].pass})
        /\ lip_ret.passes <=> (lip_ret.violations <= 1)
        /\ Get(lip_arg, "molecular_weight", 0) = 50000 => ~lip_ret.rules["MW < 500 Da"].pass
        /\ Get(lip_arg, "logp", 0) = 500 => ~lip_ret.rules["LogP < 5"].pass
        /\ Get(lip_arg, "hbd", 0) = 5 => lip_ret.rules["HBD <= 5"].pass
        /\ Get(lip_arg, "hba", 0) = 10 => lip_ret.rules["HBA <= 10"].pass

C2_Witness ==
    /\ lip_arg = [molecular_weight |-> 50000, logp |-> 500, hbd |-> 5, hba |-> 10]
    /\ lip_ret.violations = 2
    /\ ~lip_ret.passes

\* C3 as stated: every failure during an analysis run (parsing the SMILES,
\* computing descriptors) is shown as an inline message and the run still
\* produces results from placeholder property values.
C3_EveryFailureDegradesToResults ==
    \A s \in Sessions :
        (view[s].clicked = "analyze" /\ (view[s].parse_failed \/ view[s].calc_failed))
        => /\ view[s].errors \ ImportErrors # {}
           /\ view[s].outcome = "results"
           /\ view[s].lipinski_results # NoLipinski

\* C3 amended: a SMILES the toolkit cannot parse is reported inline and the
\* run stops without results; a descriptor calculation that raises after
\* mol.molwt and mol.exactmass were read is reported inline and the run
\* produces its results from the placeholder values (the molecule's weight
\* and mass, 0 for every other property).
C3_ParseStopsDescriptorsDegrade ==
    \A s \in Sessions :
        view[s].clicked = "analyze" =>
            /\ view[s].parse_failed =>
                  /\ "Error creating molecule from SMILES" \in view[s].errors
                  /\ "Invalid SMILES string or error creating molecule." \in view[s].errors
                  /\ view[s].outcome = "stopped"
                  /\ view[s].properties = EmptyDict
                  /\ view[s].lipinski_results = NoLipinski
            /\ (view[s].calc_failed /\ ob_failure = "calcdesc") =>
                  /\ "Error calculating properties" \in view[s].errors
                  /\ view[s].outcome = "results"
                  /\ \A k \in DOMAIN view[s].properties :
                        k \notin {"molecular_weight", "exact_mass"} => view[s].properties[k] = 0
                  /\ {"molecular_weight", "logp", "hbd", "hba", "TPSA", "nrotb"}
                        \subseteq DOMAIN view[s].properties
                  /\ view[s].lipinski_results = check_lipinski_rule(view[s].properties)
                  /\ view[s].lipinski_results # NoLipinski

C3_Witness ==
    \E s \in Sessions :
        /\ view[s].clicked = "analyze"
        /\ view[s].parse_failed
        /\ view[s].smiles = "C1CC"
        /\ view[s].outcome = "stopped"

\* C4: the script keeps nothing in st.session_state but selected_smiles, and
\* whenever that key is present its value is the SMILES of the most recently
\* clicked Load button, one of the seven examples.
C4_OnlySelectedSmilesCarried ==
    \A s \in DOMAIN hist :
        /\ DOMAIN session_state[s] \subseteq {"selected_smiles"}
        /\ Has(session_state[s], "selected_smiles") =>
              /\ hist[s].last_load \in ExampleNames
              /\ session_state[s]["selected_smiles"] = examples[hist[s].last_load]
        /\ Cardinality(ExampleNames) = 7

C4_Witness ==
    \E s \in DOMAIN hist :
        /\ Has(session_state[s], "selected_smiles")
        /\ hist[s].last_load = "Caffeine"
        /\ text_input[s] = "CCO"
        /\ view[s].clicked = "widget"

\* C5: two interaction histories that end in an Analyze of the same SMILES
\* with the same options render the same property record, rule results,
\* ADMET labels and messages.
C5_ResultsDependOnlyOnRunInputs ==
    \A a, b \in Sessions :
        ( /\ view[a].clicked = "analyze"
          /\ view[b].clicked = "analyze"
          /\ view[a].smiles = view[b].smiles
          /\ view[a].detailed = view[b].detailed )
        => view[a] = view[b]

C5_Witness ==
    /\ Sessions = {"A", "B"}
    /\ view["A"].clicked = "analyze"
    /\ view["B"].clicked = "analyze"
    /\ view["A"].smiles = examples["Aspirin"]
    /\ view["B"].smiles = examples["Aspirin"]
    /\ view["A"].detailed = view["B"].detailed
    /\ view["A"].outcome = "results"
    /\ text_input["A"] = "CCO"
    /\ text_input["B"] = examples["Aspirin"]

\* C6: the first Analyze click after a Load click for X analyses X's SMILES,
\* whatever the text box holds.
C6_LoadedExampleOverridesText ==
    \A s \in DOMAIN hist :
        ( /\ view[s].clicked = "analyze"
          /\ hist[s].last_load \in ExampleNames
          /\ hist[s].analyzes = 1 )
        => view[s].smiles = examples[hist[s].last_load]

C6_Witness ==
    \E s \in DOMAIN hist :
        /\ view[s].clicked = "analyze"
        /\ hist[s].last_load = "Warfarin"
        /\ hist[s].analyzes = 1
        /\ text_input[s] = "CCO"
        /\ view[s].smiles = examples["Warfarin"]

\* C7: a run in which Analyze is clicked with a non-empty effective SMILES
\* ends with selected_smiles absent on every outcome, and a further Analyze
\* without a Load click in between analyses the text input.
C7_AnalyzeClearsSelection ==
    \A s \in DOMAIN hist :
        /\ (view[s].clicked = "analyze" /\ view[s].smiles # "")
              => ~Has(session_state[s], "selected_smiles")
        /\ (view[s].clicked = "analyze" /\ hist[s].analyzes >= 2)
              => view[s].smiles = text_input[s]

C7_Witness ==
    \E s \in DOMAIN hist :
        /\ view[s].clicked = "analyze"
        /\ view[s].outcome = "stopped"
        /\ ~PYBEL_AVAILABLE
        /\ hist[s].last_load \in ExampleNames
        /\ hist[s].analyzes = 1
        /\ ~Has(session_state[s], "selected_smiles")

====
